---- MODULE Spec2Model ----
(***************************************************************************)
(* API Mock Generator (src/src/App.vue): the reactive state of the         *)
(* component, its handlers (onGenerate, onOpenApiUpload and the reader's   *)
(* onload callback) and the pure functions they call (parseSchema,         *)
(* genValue, buildRecord, mapSchemaType, openApiToSchema).                 *)
(*                                                                         *)
(* Texts are strings and are parsed character by character; values are     *)
(* JavaScript values: records tagged by k (the typeof-like kind).          *)
(***************************************************************************)
EXTENDS Integers, Sequences, FiniteSets, TLC

(***************************************************************************)
(* Strings                                                                 *)
(***************************************************************************)
Ch(s, i) == SubSeq(s, i, i)

\* String.prototype.startsWith
startsWith(s, p) == Len(s) >= Len(p) /\ SubSeq(s, 1, Len(p)) = p

\* String.prototype.slice(n), n >= 0
slice(s, n) == IF n >= Len(s) THEN "" ELSE SubSeq(s, n + 1, Len(s))

endsWith(s, p) == Len(s) >= Len(p) /\ SubSeq(s, Len(s) - Len(p) + 1, Len(s)) = p

Digits == "0123456789"
DigitValue == [c \in {Ch(Digits, d) : d \in 1..10} |-> CHOOSE d \in 0..9 : Ch(Digits, d + 1) = c]
IsDigit(c) == c \in DOMAIN DigitValue
DigitVal(c) == DigitValue[c]

RECURSIVE DecimalValue(_)
DecimalValue(d) ==
  IF d = "" THEN 0
  ELSE 10 * DecimalValue(SubSeq(d, 1, Len(d) - 1)) + DigitVal(Ch(d, Len(d)))

\* String(n) of an integer n
RECURSIVE NatToString(_)
NatToString(n) ==
  IF n < 10 THEN Ch(Digits, n + 1)
  ELSE NatToString(n \div 10) \o Ch(Digits, (n % 10) + 1)

IntToString(n) == IF n < 0 THEN "-" \o NatToString(-n) ELSE NatToString(n)

\* String.prototype.padStart(w, '0')
RECURSIVE padStart0(_, _)
padStart0(s, w) == IF Len(s) >= w THEN s ELSE padStart0("0" \o s, w)

UpperCase == "ABCDEFGHIJKLMNOPQRSTUVWXYZ"
LowerCase == "abcdefghijklmnopqrstuvwxyz"
UpperSet ==
  {"A", "B", "C", "D", "E", "F", "G", "H", "I", "J", "K", "L", "M",
   "N", "O", "P", "Q", "R", "S", "T", "U", "V", "W", "X", "Y", "Z"}
LowerCh(c) ==
  IF c \in UpperSet
  THEN Ch(LowerCase, CHOOSE j \in 1..26 : Ch(UpperCase, j) = c)
  ELSE c

\* String.prototype.toLowerCase (ASCII letters)
RECURSIVE toLowerCase(_)
toLowerCase(s) ==
  IF s = "" THEN "" ELSE toLowerCase(SubSeq(s, 1, Len(s) - 1)) \o LowerCh(Ch(s, Len(s)))

(***************************************************************************)
(* JavaScript values                                                       *)
(***************************************************************************)
Undefined == [k |-> "undefined"]
Null == [k |-> "null"]
Bool(b) == [k |-> "boolean", b |-> b]
Str(s) == [k |-> "string", s |-> s]
\* a number is finite (n + 1/2 when half), NaN, Infinity or -Infinity
Num(n) == [k |-> "number", cls |-> "finite", n |-> n, half |-> FALSE]
NumHalf(n) == [k |-> "number", cls |-> "finite", n |-> n, half |-> TRUE]
NaN == [k |-> "number", cls |-> "NaN", n |-> 0, half |-> FALSE]
Infinity == [k |-> "number", cls |-> "Infinity", n |-> 0, half |-> FALSE]
NegInfinity == [k |-> "number", cls |-> "-Infinity", n |-> 0, half |-> FALSE]
\* an object: its own enumerable properties <<key, value>> in enumeration order
Obj(m) == [k |-> "object", m |-> m]
Arr(a) == [k |-> "array", a |-> a]

Ok(v) == [ok |-> TRUE, v |-> v]
\* a thrown Error object
Throw(name, message) == [ok |-> FALSE, name |-> name, message |-> message]

\* ToBoolean
Truthy(v) ==
  CASE v.k \in {"undefined", "null"} -> FALSE
    [] v.k = "boolean" -> v.b
    [] v.k = "string" -> v.s # ""
    [] v.k = "number" -> ~(v.cls = "NaN" \/ (v.cls = "finite" /\ v.n = 0 /\ ~v.half))
    [] OTHER -> TRUE

\* typeof v === 'object'
TypeofObject(v) == v.k \in {"null", "object", "array"}

\* an array index: a canonical numeric string ("0", "1", "12"; not "01")
IsArrayIndex(key) ==
  /\ key # ""
  /\ \A i \in 1..Len(key) : IsDigit(Ch(key, i))
  /\ (Len(key) > 1 => Ch(key, 1) # "0")

HasOwn(m, key) == \E i \in 1..Len(m) : m[i][1] = key

\* where a new property key goes: integer keys ascending first, then the others
\* in insertion order (OrdinaryOwnPropertyKeys)
InsertAt(m, key) ==
  IF IsArrayIndex(key)
  THEN LET later == {i \in 1..Len(m) :
                       \/ ~IsArrayIndex(m[i][1])
                       \/ DecimalValue(m[i][1]) > DecimalValue(key)}
       IN IF later = {} THEN Len(m) + 1
          ELSE CHOOSE i \in later : \A j \in later : i <= j
  ELSE Len(m) + 1

\* CreateDataProperty: define or overwrite the own property key
DefineOwn(m, key, val) ==
  IF HasOwn(m, key)
  THEN [i \in 1..Len(m) |-> IF m[i][1] = key THEN <<key, val>> ELSE m[i]]
  ELSE LET p == InsertAt(m, key)
       IN SubSeq(m, 1, p - 1) \o << <<key, val>> >> \o SubSeq(m, p, Len(m))

(***************************************************************************)
(* JSON.parse: recursive descent over the characters of the text.          *)
(* Strings have no escape sequences and numbers are integers in the texts  *)
(* of this model; both are syntax errors here.                             *)
(***************************************************************************)
Fail == [ok |-> FALSE]

RECURSIVE SkipWs(_, _)
SkipWs(s, i) ==
  IF i <= Len(s) /\ Ch(s, i) \in {" ", "\n", "\t", "\r"}
  THEN SkipWs(s, i + 1) ELSE i

\* the index of the closing quote at or after i, 0 when there is none
RECURSIVE ScanString(_, _)
ScanString(s, i) ==
  IF i > Len(s) THEN 0
  ELSE IF Ch(s, i) = "\"" THEN i
  ELSE IF Ch(s, i) \in {"\\", "\n", "\t", "\r"} THEN 0
  ELSE ScanString(s, i + 1)

\* the index of the first non-digit at or after i
RECURSIVE ScanDigits(_, _)
ScanDigits(s, i) ==
  IF i <= Len(s) /\ IsDigit(Ch(s, i)) THEN ScanDigits(s, i + 1) ELSE i

HasAt(s, i, w) == i + Len(w) - 1 <= Len(s) /\ SubSeq(s, i, i + Len(w) - 1) = w

ParseNumber(s, i) ==
  LET neg == Ch(s, i) = "-"
      b == IF neg THEN i + 1 ELSE i
      e == ScanDigits(s, b)
  IN IF e = b \/ (e > b + 1 /\ Ch(s, b) = "0") THEN Fail
     ELSE LET n == DecimalValue(SubSeq(s, b, e - 1))
          IN [ok |-> TRUE, v |-> Num(IF neg THEN -n ELSE n), i |-> e]

RECURSIVE ParseValue(_, _), ParseMembers(_, _, _), ParseElements(_, _, _)
ParseValue(s, i0) ==
  LET i == SkipWs(s, i0) IN
  IF i > Len(s) THEN Fail
  ELSE LET c == Ch(s, i) IN
    CASE c = "{" ->
           LET j == SkipWs(s, i + 1)
           IN IF HasAt(s, j, "}") THEN [ok |-> TRUE, v |-> Obj(<<>>), i |-> j + 1]
              ELSE ParseMembers(s, j, <<>>)
      [] c = "[" ->
           LET j == SkipWs(s, i + 1)
           IN IF HasAt(s, j, "]") THEN [ok |-> TRUE, v |-> Arr(<<>>), i |-> j + 1]
              ELSE ParseElements(s, j, <<>>)
      [] c = "\"" ->
           LET e == ScanString(s, i + 1)
           IN IF e = 0 THEN Fail
              ELSE [ok |-> TRUE, v |-> Str(SubSeq(s, i + 1, e - 1)), i |-> e + 1]
      [] c = "-" \/ IsDigit(c) -> ParseNumber(s, i)
      [] HasAt(s, i, "true") -> [ok |-> TRUE, v |-> Bool(TRUE), i |-> i + 4]
      [] HasAt(s, i, "false") -> [ok |-> TRUE, v |-> Bool(FALSE), i |-> i + 5]
      [] HasAt(s, i, "null") -> [ok |-> TRUE, v |-> Null, i |-> i + 4]
      [] OTHER -> Fail

\* "key": value members up to the closing brace; a repeated key overwrites
ParseMembers(s, i0, m) ==
  LET i == SkipWs(s, i0) IN
  IF ~HasAt(s, i, "\"") THEN Fail
  ELSE LET e == ScanString(s, i + 1) IN
    IF e = 0 THEN Fail
    ELSE LET key == SubSeq(s, i + 1, e - 1)
             c == SkipWs(s, e + 1)
         IN IF ~HasAt(s, c, ":") THEN Fail
            ELSE LET r == ParseValue(s, c + 1) IN
              IF ~r.ok THEN Fail
              ELSE LET rest(m2, j) ==
                         IF HasAt(s, j, ",") THEN ParseMembers(s, j + 1, m2)
                         ELSE IF HasAt(s, j, "}")
                              THEN [ok |-> TRUE, v |-> Obj(m2), i |-> j + 1]
                              ELSE Fail
                   IN rest(DefineOwn(m, key, r.v), SkipWs(s, r.i))

ParseElements(s, i0, a) ==
  LET r == ParseValue(s, i0) IN
  IF ~r.ok THEN Fail
  ELSE LET a2 == Append(a, r.v)
           j == SkipWs(s, r.i)
       IN IF HasAt(s, j, ",") THEN ParseElements(s, j + 1, a2)
          ELSE IF HasAt(s, j, "]")
               THEN [ok |-> TRUE, v |-> Arr(a2), i |-> j + 1]
               ELSE Fail

MsgJsonSyntax == "Unexpected token in JSON"

JSONparse(s) ==
  LET whole(r) == IF r.ok /\ SkipWs(s, r.i) > Len(s) THEN Ok(r.v)
                  ELSE Throw("SyntaxError", MsgJsonSyntax)
  IN whole(ParseValue(s, 1))

(***************************************************************************)
(* JSON.stringify(v, null, 2)                                              *)
(***************************************************************************)
\* Number.prototype.toString of a finite number
NumberToString(v) ==
  IF ~v.half THEN IntToString(v.n)
  ELSE IF v.n >= 0 THEN NatToString(v.n) \o ".5"
  ELSE "-" \o NatToString(-v.n - 1) \o ".5"

RECURSIVE SerializeValue(_, _), JoinMembers(_, _), JoinElements(_, _)
SerializeValue(v, ind) ==
  CASE v.k = "null" -> "null"
    [] v.k = "boolean" -> IF v.b THEN "true" ELSE "false"
    [] v.k = "number" -> IF v.cls = "finite" THEN NumberToString(v) ELSE "null"
    [] v.k = "string" -> "\"" \o v.s \o "\""
    [] v.k = "array" ->
         IF v.a = <<>> THEN "[]"
         ELSE "[\n" \o JoinElements(v.a, ind \o "  ") \o "\n" \o ind \o "]"
    [] v.k = "object" ->
         LET m == SelectSeq(v.m, LAMBDA p : p[2].k # "undefined")
         IN IF m = <<>> THEN "{}"
            ELSE "{\n" \o JoinMembers(m, ind \o "  ") \o "\n" \o ind \o "}"
    [] OTHER -> "null"

JoinMembers(m, ind) ==
  LET one == ind \o "\"" \o m[1][1] \o "\": " \o SerializeValue(m[1][2], ind)
  IN IF Len(m) = 1 THEN one ELSE one \o ",\n" \o JoinMembers(Tail(m), ind)

JoinElements(a, ind) ==
  LET one == ind \o SerializeValue(a[1], ind)
  IN IF Len(a) = 1 THEN one ELSE one \o ",\n" \o JoinElements(Tail(a), ind)

JSONstringify(v) == SerializeValue(v, "")

(***************************************************************************)
(* Property access on JavaScript values                                    *)
(***************************************************************************)
Nullish(v) == v.k \in {"undefined", "null"}

OwnValue(m, key) == m[CHOOSE i \in 1..Len(m) : m[i][1] = key][2]

\* v[key] of a value that is neither null nor undefined.  Only own properties,
\* array and string indices and length are modelled: the code names no
\* property that Object.prototype defines.
Get(v, key) ==
  CASE v.k = "object" -> IF HasOwn(v.m, key) THEN OwnValue(v.m, key) ELSE Undefined
    [] v.k = "array" ->
         IF IsArrayIndex(key) /\ DecimalValue(key) < Len(v.a)
         THEN v.a[DecimalValue(key) + 1]
         ELSE IF key = "length" THEN Num(Len(v.a)) ELSE Undefined
    [] v.k = "string" ->
         IF IsArrayIndex(key) /\ DecimalValue(key) < Len(v.s)
         THEN Str(Ch(v.s, DecimalValue(key) + 1))
         ELSE IF key = "length" THEN Num(Len(v.s)) ELSE Undefined
    [] OTHER -> Undefined

\* v?.[key]
OptGet(v, key) == IF Nullish(v) THEN Undefined ELSE Get(v, key)

\* Object.entries(v) of a value that is neither null nor undefined
ObjectEntries(v) ==
  CASE v.k = "object" -> v.m
    [] v.k = "array" -> [i \in 1..Len(v.a) |-> <<NatToString(i - 1), v.a[i]>>]
    [] v.k = "string" -> [i \in 1..Len(v.s) |-> <<NatToString(i - 1), Str(Ch(v.s, i))>>]
    [] OTHER -> <<>>

\* Object.keys(v) of a value that is neither null nor undefined
ObjectKeys(v) == LET e == ObjectEntries(v) IN [i \in 1..Len(e) |-> e[i][1]]

\* o[key] = val on an object made by the literal {}: "__proto__" reaches the
\* accessor of Object.prototype, which defines no own property
SetProp(m, key, val) == IF key = "__proto__" THEN m ELSE DefineOwn(m, key, val)

\* ToString of a property key
ToPropertyKey(v) ==
  CASE v.k = "string" -> v.s
    [] v.k = "undefined" -> "undefined"
    [] v.k = "null" -> "null"
    [] v.k = "number" /\ v.cls = "finite" -> NumberToString(v)
    [] OTHER -> v.k

(***************************************************************************)
(* Numbers: Number(), Math.min, Math.max, ToLength                         *)
(***************************************************************************)
\* twice the value of a finite number
Twice(v) == 2 * v.n + (IF v.half THEN 1 ELSE 0)

\* a < b for numbers that are not NaN
NumLess(a, b) ==
  CASE a.cls = "-Infinity" -> b.cls # "-Infinity"
    [] a.cls = "Infinity" -> FALSE
    [] b.cls = "Infinity" -> TRUE
    [] b.cls = "-Infinity" -> FALSE
    [] OTHER -> Twice(a) < Twice(b)

MathMin(a, b) == IF a.cls = "NaN" \/ b.cls = "NaN" THEN NaN ELSE IF NumLess(b, a) THEN b ELSE a
MathMax(a, b) == IF a.cls = "NaN" \/ b.cls = "NaN" THEN NaN ELSE IF NumLess(a, b) THEN b ELSE a

\* StringToNumber: the empty text is 0, a decimal integer is its value,
\* anything else is NaN
StringToNumber(s) ==
  LET neg == HasAt(s, 1, "-")
      d == IF neg THEN slice(s, 1) ELSE s
  IN IF s = "" THEN Num(0)
     ELSE IF d # "" /\ \A i \in 1..Len(d) : IsDigit(Ch(d, i))
          THEN Num(IF neg THEN -DecimalValue(d) ELSE DecimalValue(d))
          ELSE NaN

\* Number(v) of a primitive
ToNumber(v) ==
  CASE v.k = "number" -> v
    [] v.k = "string" -> StringToNumber(v.s)
    [] v.k = "null" -> Num(0)
    [] v.k = "boolean" -> Num(IF v.b THEN 1 ELSE 0)
    [] OTHER -> NaN

\* ToLength of a number >= 1: the integer part
ToLength(v) == v.n

(***************************************************************************)
(* Dates.  A Date is its time value in whole hours since 1970-01-01T00:00Z *)
(* (the minutes and below are dropped: no getter used here reads them).    *)
(* The local-time getters read the time zone of the environment, an offset *)
(* in whole hours east of UTC.                                             *)
(***************************************************************************)
\* days since 1970-01-01 of the civil date y-m-d
DaysFromCivil(y, m, d) ==
  LET yy == IF m <= 2 THEN y - 1 ELSE y
      era == yy \div 400
      yoe == yy - era * 400
      mp == IF m > 2 THEN m - 3 ELSE m + 9
      doy == (153 * mp + 2) \div 5 + d - 1
      doe == yoe * 365 + yoe \div 4 - yoe \div 100 + doy
  IN era * 146097 + doe - 719468

\* the civil date [y, m, d] of a day number since 1970-01-01
CivilFromDays(days) ==
  LET z == days + 719468
      era == z \div 146097
      doe == z % 146097
      ofMonth(y, mp, d) ==
        [y |-> y + (IF mp < 10 THEN 0 ELSE 1), m |-> IF mp < 10 THEN mp + 3 ELSE mp - 9,
         d |-> d]
      ofDay(yoe, doy, mp) == ofMonth(yoe + era * 400, mp, doy - (153 * mp + 2) \div 5 + 1)
      ofYear(yoe, doy) == ofDay(yoe, doy, (5 * doy + 2) \div 153)
      ofEra(yoe) == ofYear(yoe, doe - (365 * yoe + yoe \div 4 - yoe \div 100))
  IN ofEra((doe - doe \div 1460 + doe \div 36524 - doe \div 146096) \div 365)

\* new Date('YYYY-MM-DD'): a date-only text is midnight UTC
DateParse(txt) ==
  24 * DaysFromCivil(DecimalValue(SubSeq(txt, 1, 4)),
                     DecimalValue(SubSeq(txt, 6, 7)),
                     DecimalValue(SubSeq(txt, 9, 10)))

LocalCivil(dt, tz) == CivilFromDays((dt + tz) \div 24)
getFullYear(dt, tz) == LocalCivil(dt, tz).y
\* getMonth is zero-based
getMonth(dt, tz) == LocalCivil(dt, tz).m - 1
getDate(dt, tz) == LocalCivil(dt, tz).d

\* Date.prototype.toISOString: UTC, YYYY-MM-DDTHH:mm:ss.sssZ
toISOString(dt) ==
  LET text(c) ==
        padStart0(NatToString(c.y), 4) \o "-" \o padStart0(NatToString(c.m), 2) \o "-"
          \o padStart0(NatToString(c.d), 2) \o "T" \o padStart0(NatToString(dt % 24), 2)
          \o ":00:00.000Z"
  IN text(CivilFromDays(dt \div 24))

(***************************************************************************)
(* The random source (faker).  A call consumes one raw draw and maps it    *)
(* into its range; the draws of one generation are RawDraw(seed, 1),       *)
(* RawDraw(seed, 2), ...                                                   *)
(***************************************************************************)
\* raw draws: the least, the greatest of both ranges used (140209999 is
\* -1 modulo 10000 and modulo 70105) and one in between
RawSamples == <<0, 140209999, 18948>>

RawDraw(seed, j) == RawSamples[((seed + j) % Len(RawSamples)) + 1]

UuidSamples ==
  <<"6fbe024f-2316-4265-aa6e-8d65a837e308", "0c8ab1a2-5b5e-4c1f-9d1c-0f5b3b6f2a11">>
NameSamples == <<"Allen Brown", "Mika Sato">>
EmailSamples == <<"Tomasa_Ferry14@hotmail.com", "kei.ito@example.org">>

\* faker.string.uuid()
fakerStringUuid(raw) == UuidSamples[(raw % Len(UuidSamples)) + 1]
\* faker.person.fullName()
fakerPersonFullName(raw) == NameSamples[(raw % Len(NameSamples)) + 1]
\* faker.internet.email()
fakerInternetEmail(raw) == EmailSamples[(raw % Len(EmailSamples)) + 1]
\* faker.number.int({ min, max }): both ends included
fakerNumberInt(min, max, raw) == min + (raw % (max - min + 1))
\* faker.date.between({ from, to }): an instant from DateParse(from) to
\* DateParse(to), both included
fakerDateBetween(from, to, raw) ==
  DateParse(from) + (raw % (DateParse(to) - DateParse(from) + 1))

(***************************************************************************)
(* parseSchema, genValue, buildRecord                                      *)
(***************************************************************************)
\* 'スキーマはオブジェクトで指定してください。'
MsgSchemaNotObject == "schema must be given as an object"
\* the TypeErrors of the engine
MsgNotAFunction == "typeSpec.startsWith is not a function"
MsgReadOfNull == "Cannot read properties of null"
MsgReadOfUndefined == "Cannot read properties of undefined"
MsgNotConvertible == "Cannot convert undefined or null to object"

parseSchema(txt) ==
  LET checked(obj) ==
        IF ~obj.ok THEN obj
        ELSE IF ~Truthy(obj.v) \/ ~TypeofObject(obj.v)
             THEN Throw("Error", MsgSchemaNotObject)
             ELSE Ok(obj.v)
  IN checked(JSONparse(txt))

\* typeSpec is whatever value the schema holds for the field
genValue(typeSpec, raw, tz) ==
  IF typeSpec.k = "null" THEN Throw("TypeError", MsgReadOfNull)
  ELSE IF typeSpec.k # "string" THEN Throw("TypeError", MsgNotAFunction)
  ELSE IF startsWith(typeSpec.s, "date:")
  THEN LET fmt == slice(typeSpec.s, 5)
           formatted(dt, yyyy, mm, dd) ==
             IF fmt = "YYYY-MM-DD" THEN Ok(Str(yyyy \o "-" \o mm \o "-" \o dd))
             ELSE IF fmt = "YYYY/MM/DD" THEN Ok(Str(yyyy \o "/" \o mm \o "/" \o dd))
             ELSE Ok(Str(toISOString(dt)))
           ofDate(dt) ==
             formatted(dt, NatToString(getFullYear(dt, tz)),
                       padStart0(NatToString(getMonth(dt, tz) + 1), 2),
                       padStart0(NatToString(getDate(dt, tz)), 2))
       IN ofDate(fakerDateBetween("2018-01-01", "2025-12-31", raw))
  ELSE CASE typeSpec.s = "uuid" -> Ok(Str(fakerStringUuid(raw)))
         [] typeSpec.s = "string" -> Ok(Str(fakerPersonFullName(raw)))
         [] typeSpec.s = "email" -> Ok(Str(toLowerCase(fakerInternetEmail(raw))))
         [] typeSpec.s = "number" -> Ok(Num(fakerNumberInt(0, 9999, raw)))
         [] OTHER -> Ok(Null)

\* the loop of buildRecord from entry idx on; env is the random seed and the
\* time zone, base the number of draws taken before this record
RECURSIVE buildRecordFrom(_, _, _, _, _)
buildRecordFrom(entries, idx, rec, base, env) ==
  IF idx > Len(entries) THEN Ok(Obj(rec))
  ELSE LET assigned(g) ==
             IF ~g.ok THEN g
             ELSE buildRecordFrom(entries, idx + 1, SetProp(rec, entries[idx][1], g.v),
                                  base, env)
       IN assigned(genValue(entries[idx][2], RawDraw(env.seed, base + idx), env.tz))

buildRecord(schema, base, env) ==
  buildRecordFrom(ObjectEntries(schema), 1, <<>>, base, env)

(***************************************************************************)
(* mapSchemaType, openApiToSchema                                          *)
(***************************************************************************)
\* 'OpenAPI: paths が見つかりません'
MsgPathsNotFound == "OpenAPI: paths not found"
\* 'application/json の schema が見つかりません'
MsgSchemaNotFound == "application/json schema not found"
\* '未対応のOpenAPI schema（MVP簡易対応）'
MsgUnsupported == "unsupported OpenAPI schema shape"

\* mapSchemaType with the type looked at before the format
mapSchemaTypeByTypeFirst(t, f) ==
  IF t = Str("string") THEN "string"
  ELSE IF t = Str("integer") \/ t = Str("number") THEN "number"
  ELSE IF f = Str("uuid") THEN "uuid"
  ELSE IF f = Str("email") THEN "email"
  ELSE IF f = Str("date") \/ f = Str("date-time") THEN "date:YYYY-MM-DD"
  ELSE "string"

\* t and f are the type and format of a property node: any value, or undefined
mapSchemaType(t, f) ==
  IF f = Str("uuid") THEN "uuid"
  ELSE IF f = Str("email") THEN "email"
  ELSE IF f = Str("date") \/ f = Str("date-time") THEN "date:YYYY-MM-DD"
  ELSE IF t = Str("string") THEN "string"
  ELSE IF t = Str("integer") \/ t = Str("number") THEN "number"
  ELSE "string"

\* the loop of convertProps from entry idx on
RECURSIVE convertPropsFrom(_, _, _)
convertPropsFrom(entries, idx, r) ==
  IF idx > Len(entries) THEN Ok(Obj(r))
  ELSE LET key == entries[idx][1]
           v == entries[idx][2]
       IN IF Nullish(v)
          THEN Throw("TypeError",
                     IF v.k = "null" THEN MsgReadOfNull ELSE MsgReadOfUndefined)
          ELSE convertPropsFrom(entries, idx + 1,
                 SetProp(r, key, Str(mapSchemaType(Get(v, "type"), Get(v, "format")))))

convertProps(props) ==
  convertPropsFrom(ObjectEntries(IF Truthy(props) THEN props ELSE Obj(<<>>)), 1, <<>>)

\* Object.keys(v)[0]
FirstKey(v) == IF ObjectKeys(v) = <<>> THEN Undefined ELSE Str(ObjectKeys(v)[1])

\* doc.paths[path] is item here; path, resp and schema are the constants of
\* the source, firstMethod its constant method (the name of the ref here)
openApiToSchema(doc) ==
  LET ofSchema(schema) ==
        IF ~Truthy(schema) THEN Throw("Error", MsgSchemaNotFound)
        ELSE IF /\ Get(schema, "type") = Str("array")
                /\ Truthy(OptGet(Get(schema, "items"), "properties"))
             THEN convertProps(Get(Get(schema, "items"), "properties"))
        ELSE IF /\ Get(schema, "type") = Str("object")
                /\ Truthy(Get(schema, "properties"))
             THEN convertProps(Get(schema, "properties"))
        ELSE Throw("Error", MsgUnsupported)
      ofItem(item) ==
        IF Nullish(item) THEN Throw("TypeError", MsgNotConvertible)
        ELSE LET firstMethod == FirstKey(item)
                 resp == OptGet(OptGet(Get(item, ToPropertyKey(firstMethod)),
                                         "responses"), "200")
             IN ofSchema(OptGet(OptGet(OptGet(resp, "content"), "application/json"),
                                "schema"))
      ofPaths(paths) ==
        IF ~Truthy(paths) THEN Throw("Error", MsgPathsNotFound)
        ELSE LET path == FirstKey(paths)
             IN ofItem(Get(paths, ToPropertyKey(path)))
  IN ofPaths(OptGet(doc, "paths"))

(***************************************************************************)
(* The component: its reactive state and its handlers                      *)
(***************************************************************************)
VARIABLES
  endpoint,    \* ref endpoint
  method,      \* ref method: one of the options of the select
  count,       \* ref count: what v-model.number left there, a number or a text
  schemaText,  \* ref schemaText
  result,      \* ref result: Null or the array of records
  error,       \* ref error
  working,     \* ref working
  pending,     \* the files whose FileReader has not called onload yet
  last,        \* the handler that ran last and whether its try block completed
  call         \* the last call of a pure function: its name, arguments and outcome

vars == <<endpoint, method, count, schemaText, result, error, working, pending, last, call>>

DefaultSchemaText ==
  "{\n  \"id\": \"uuid\",\n  \"name\": \"string\",\n  \"email\": \"email\",\n  \"age\": \"number\",\n  \"joined_at\": \"date:YYYY-MM-DD\"\n}"

MinRecords == 1
MaxRecords == 10000

\* clampCount without Math.max(1, ...): a count below 1 stays below 1
clampCountNoLowerLimit(cnt) ==
  LET n == ToNumber(cnt)
  IN MathMin(Num(MaxRecords), IF Truthy(n) THEN n ELSE Num(1))

\* Math.max(1, Math.min(10000, Number(count.value) || 1))
clampCount(cnt) ==
  LET n == ToNumber(cnt)
  IN MathMax(Num(MinRecords), MathMin(Num(MaxRecords), IF Truthy(n) THEN n ELSE Num(1)))

\* Array.from({ length: n }, () => buildRecord(schema)): the first callback
\* that throws ends it.  The draws repeat with period Len(RawSamples), and
\* so do the records: each distinct one is built once (rows) and looked up.
arrayFromBuildRecord(schema, len, env) ==
  LET period == Len(RawSamples)
      from(rows, w) ==
        LET rec(i) == rows[(((i - 1) * w) % period) + 1]
            bad == {i \in 1..len : ~rec(i).ok}
        IN IF bad # {} THEN rec(CHOOSE i \in bad : \A j \in bad : i <= j)
           ELSE Ok(Arr([i \in 1..len |-> rec(i).v]))
  IN from([b \in 1..period |-> buildRecord(schema, b - 1, env)],
          Len(ObjectEntries(schema)))

\* the try block of onGenerate: the new result, or what it throws
tryGenerate(txt, cnt, env) ==
  LET records(schema) ==
        IF ~schema.ok THEN schema
        ELSE arrayFromBuildRecord(schema.v, ToLength(clampCount(cnt)), env)
  IN records(parseSchema(txt))

\* e.message ?? String(e): every value thrown here is an Error with a message
MessageOf(e) == e.message

(***************************************************************************)
(* The inputs of the model: what the user types, the files uploaded and    *)
(* the environment of a generation                                         *)
(***************************************************************************)
\* an uploaded document with an array schema, and one with an object schema
PetsText ==
  "{\"paths\":{\"/pets\":{\"get\":{\"responses\":{\"200\":{\"content\":{\"application/json\":{\"schema\":{\"type\":\"array\",\"items\":{\"properties\":{\"id\":{\"type\":\"string\",\"format\":\"uuid\"},\"age\":{\"type\":\"integer\"}}}}}}}}}}}}"

MembersText ==
  "{\"paths\": {\"/members\": {\"post\": {\"responses\": {\"200\": {\"content\": {\"application/json\": {\"schema\": {\"type\": \"object\", \"properties\": {\"mail\": {\"type\": \"string\", \"format\": \"email\"}, \"since\": {\"type\": \"string\", \"format\": \"date-time\"}}}}}}}}}}}"

Files ==
  { [name |-> "petstore.json", text |-> PetsText],
    [name |-> "Members.YML", text |-> MembersText],
    [name |-> "nopath.json", text |-> "{\"paths\": {}}"],
    [name |-> "block.json", text |-> "paths: {}"] }

SchemaInputs == { DefaultSchemaText, "{\"m\":\"string\"}", "{\"a\": 1}", "not json" }

CountInputs == { Num(5), Num(2), Str("") }

\* the environment of a generation: the state of the random source and the
\* time zone, in hours east of UTC
Seeds == {0, 1}
TimeZones == {-8, 9}

\* what the endpoint field can hold, the empty text included
EndpointInputs == { "/users", "" }
\* the options of the select (type HttpMethod)
MethodInputs == { "GET", "POST", "PUT", "DELETE" }

NoCall == [fn |-> "none"]

\* /\.(ya?ml)$/i.test(file.name)
IsYamlName(name) ==
  endsWith(toLowerCase(name), ".yaml") \/ endsWith(toLowerCase(name), ".yml")

MsgYaml == "YAMLException"

\* yaml.load of the texts this model gives a YAML name: the empty document is
\* undefined, a document in flow (JSON) style without repeated keys is the
\* value JSON.parse gives, an unterminated flow collection is an error
yamlLoad(text) ==
  LET loaded(r) == IF r.ok THEN r ELSE Throw("YAMLException", MsgYaml)
  IN IF text = "" THEN Ok(Undefined) ELSE loaded(JSONparse(text))

\* 'OpenAPI変換失敗: '
MsgConvertPrefix == "OpenAPI convert failed: "

\* the try block of reader.onload: the new schema text, or what it throws
tryConvert(file) ==
  LET text == file.text
      written(schema) == IF ~schema.ok THEN schema ELSE Ok(JSONstringify(schema.v))
      converted(doc) == IF ~doc.ok THEN doc ELSE written(openApiToSchema(doc.v))
  IN converted(IF IsYamlName(file.name) THEN yamlLoad(text) ELSE JSONparse(text))

\* tryConvert of each file of the model, evaluated once
Converted == [f \in Files |-> tryConvert(f)]

\* the schema texts of the model: typed, or written by a conversion
SchemaTexts == SchemaInputs \cup {Converted[f].v : f \in {g \in Files : Converted[g].ok}}

\* tryGenerate of each input of the model, evaluated once
Generated ==
  [t \in SchemaTexts, c \in CountInputs, s \in Seeds, z \in TimeZones |->
     tryGenerate(t, c, [seed |-> s, tz |-> z])]

generateOutcome(txt, cnt, seed, tz) ==
  IF <<txt, cnt, seed, tz>> \in DOMAIN Generated
  THEN Generated[txt, cnt, seed, tz]
  ELSE tryGenerate(txt, cnt, [seed |-> seed, tz |-> tz])

convertOutcome(file) == IF file \in Files THEN Converted[file] ELSE tryConvert(file)

\* onGenerate without error.value = '' at its start
onGenerateKeepsError(seed, tz) ==
  \E out \in {generateOutcome(schemaText, count, seed, tz)} :
    /\ IF out.ok
       THEN error' = error /\ result' = out.v
       ELSE error' = MessageOf(out) /\ result' = Null
    /\ working' = FALSE
    /\ last' = [op |-> "onGenerate", ok |-> out.ok, hadResult |-> result # Null]
    /\ UNCHANGED <<endpoint, method, count, schemaText, pending, call>>

\* onGenerate without result.value = null in its catch block
onGenerateKeepsResult(seed, tz) ==
  \E out \in {generateOutcome(schemaText, count, seed, tz)} :
    /\ IF out.ok
       THEN error' = "" /\ result' = out.v
       ELSE error' = MessageOf(out) /\ result' = result
    /\ working' = FALSE
    /\ last' = [op |-> "onGenerate", ok |-> out.ok, hadResult |-> result # Null]
    /\ UNCHANGED <<endpoint, method, count, schemaText, pending, call>>

onGenerate(seed, tz) ==
  \E out \in {generateOutcome(schemaText, count, seed, tz)} :
    /\ IF out.ok
       THEN error' = "" /\ result' = out.v
       ELSE error' = MessageOf(out) /\ result' = Null
    /\ working' = FALSE
    /\ last' = [op |-> "onGenerate", ok |-> out.ok, hadResult |-> result # Null]
    /\ UNCHANGED <<endpoint, method, count, schemaText, pending, call>>

MaxPending == 2

\* onOpenApiUpload with a file chosen: the read is started, onload comes later
onOpenApiUpload(file) ==
  /\ file \notin pending
  /\ Cardinality(pending) < MaxPending
  /\ pending' = pending \cup {file}
  /\ last' = [op |-> "onOpenApiUpload", ok |-> TRUE]
  /\ UNCHANGED <<endpoint, method, count, schemaText, result, error, working, call>>

\* onOpenApiUpload with no file chosen returns at once
onOpenApiUploadNoFile ==
  /\ last' = [op |-> "onOpenApiUpload", ok |-> TRUE]
  /\ UNCHANGED <<endpoint, method, count, schemaText, result, error, working, pending, call>>

\* reader.onload that writes the text before the conversion has succeeded
readerOnloadWritesFirst(file) ==
  /\ file \in pending
  /\ pending' = pending \ {file}
  /\ \E out \in {convertOutcome(file)} :
       /\ IF out.ok
          THEN schemaText' = out.v /\ error' = error
          ELSE error' = MsgConvertPrefix \o MessageOf(out) /\ schemaText' = "undefined"
       /\ last' = [op |-> "onload", ok |-> out.ok]
  /\ UNCHANGED <<endpoint, method, count, result, working, call>>

readerOnload(file) ==
  /\ file \in pending
  /\ pending' = pending \ {file}
  /\ \E out \in {convertOutcome(file)} :
       /\ IF out.ok
          THEN schemaText' = out.v /\ error' = error
          ELSE error' = MsgConvertPrefix \o MessageOf(out) /\ schemaText' = schemaText
       /\ last' = [op |-> "onload", ok |-> out.ok]
  /\ UNCHANGED <<endpoint, method, count, result, working, call>>

\* v-model.number="count": looseToNumber keeps the text when parseFloat is NaN
setCount(c) ==
  /\ count' = c
  /\ last' = [op |-> "input", ok |-> TRUE]
  /\ UNCHANGED <<endpoint, method, schemaText, result, error, working, pending, call>>

\* v-model="schemaText"
setSchemaText(t) ==
  /\ schemaText' = t
  /\ last' = [op |-> "input", ok |-> TRUE]
  /\ UNCHANGED <<endpoint, method, count, result, error, working, pending, call>>

\* v-model="endpoint"
setEndpoint(e) ==
  /\ endpoint' = e
  /\ last' = [op |-> "input", ok |-> TRUE]
  /\ UNCHANGED <<method, count, schemaText, result, error, working, pending, call>>

\* v-model="method" of the select
setMethod(m) ==
  /\ method' = m
  /\ last' = [op |-> "input", ok |-> TRUE]
  /\ UNCHANGED <<endpoint, count, schemaText, result, error, working, pending, call>>

\* '// 生成後にここに出力されます'
MswPlaceholder == "// shown here after generation"

\* mswText with the method as it is in the select, not lower-cased
mswTextKeepsCase ==
  IF ~Truthy(result) THEN MswPlaceholder
  ELSE LET data == JSONstringify(result)
           ep == IF endpoint # "" THEN endpoint ELSE "/"
       IN "import { rest } from 'msw'\n\nexport const handlers = [\n  rest." \o method
            \o "('" \o ep \o "', (req, res, ctx) => {\n    return res(ctx.json("
            \o data \o "))\n  })\n]"

\* computed mswText
mswText ==
  IF ~Truthy(result) THEN MswPlaceholder
  ELSE LET data == JSONstringify(result)
           ep == IF endpoint # "" THEN endpoint ELSE "/"
           m == toLowerCase(method)
       IN "import { rest } from 'msw'\n\nexport const handlers = [\n  rest." \o m
            \o "('" \o ep \o "', (req, res, ctx) => {\n    return res(ctx.json("
            \o data \o "))\n  })\n]"

Init ==
  /\ endpoint = "/users"
  /\ method = "GET"
  /\ count = Num(5)
  /\ schemaText = DefaultSchemaText
  /\ result = Null
  /\ error = ""
  /\ working = FALSE
  /\ pending = {}
  /\ last = [op |-> "setup", ok |-> TRUE]
  /\ call = NoCall

Next ==
  \/ \E seed \in Seeds, tz \in TimeZones : onGenerate(seed, tz)
  \/ \E f \in Files : onOpenApiUpload(f)
  \/ onOpenApiUploadNoFile
  \/ \E f \in Files : readerOnload(f)
  \/ \E c \in CountInputs : setCount(c)
  \/ \E t \in SchemaInputs : setSchemaText(t)
  \/ \E e \in EndpointInputs : setEndpoint(e)
  \/ \E m \in MethodInputs : setMethod(m)

Spec == Init /\ [][Next]_vars

(***************************************************************************)
(* The pure functions, applied to inputs drawn from bounded sets           *)
(***************************************************************************)
ParseInputs ==
  SchemaInputs \cup
  { "[1,2,3]",
    "[]",
    "[\"uuid\"]",
    "null",
    "{}",
    "\"uuid\"",
    "5",
    "0",
    "true",
    "false",
    "{\"a\":{\"b\":\"uuid\"}}",
    "{\"a\":null}",
    "{\"a\":\"uuid\",}",
    "{\"a\":\"uuid\"} x",
    "",
    "{\"a\":\"uuid\",\"a\":\"number\"}",
    "{\"2\":\"number\",\"1\":\"uuid\",\"b\":\"email\"}",
    "{\"__proto__\":\"uuid\"}",
    " {\"a\" : \"uuid\"} " }

\* typeSpec: every kind of text, and values that are no text
TypeSpecInputs ==
  { Str("uuid"), Str("string"), Str("email"), Str("number"),
    Str("date:YYYY-MM-DD"), Str("date:YYYY/MM/DD"), Str("date:HH:mm"), Str("date:"),
    Str("date"), Str("unknown-tag"), Str(""), Str("UUID"), Str(" number"),
    Num(1), Null, Obj(<<>>) }

RawInputs == {RawSamples[i] : i \in 1..Len(RawSamples)}

\* time zones from UTC-12 to UTC+14
TimeZoneInputs == {-12, -8, 0, 9, 14}

\* the type and the format of a property node
TypeInputs ==
  { Undefined, Null, Num(1), Str("string"), Str("integer"), Str("number"),
    Str("boolean"), Str("array"), Str("object"), Str("uuid"), Str("String") }
FormatInputs ==
  { Undefined, Null, Str("uuid"), Str("email"), Str("date"), Str("date-time"),
    Str("int32"), Str("UUID"), Str("string"), Str("number") }

DocTexts ==
  {
    \* an array schema
    "{\"paths\":{\"/pets\":{\"get\":{\"responses\":{\"200\":{\"content\":{\"application/json\":{\"schema\":{\"type\":\"array\",\"items\":{\"properties\":{\"id\":{\"type\":\"string\",\"format\":\"uuid\"},\"age\":{\"type\":\"integer\"}}}}}}}}}}}}",
    \* an object schema
    "{\"paths\":{\"/members\":{\"post\":{\"responses\":{\"200\":{\"content\":{\"application/json\":{\"schema\":{\"type\":\"object\",\"properties\":{\"mail\":{\"type\":\"string\",\"format\":\"email\"},\"since\":{\"type\":\"string\",\"format\":\"date-time\"}}}}}}}}}}}",
    \* no paths
    "{\"openapi\":\"3.0.0\"}",
    \* paths with no path
    "{\"paths\":{}}",
    \* a path with no method
    "{\"paths\":{\"/pets\":{}}}",
    \* a path that is null
    "{\"paths\":{\"/pets\":null}}",
    \* paths that is null
    "{\"paths\":null}",
    \* documents that are no object
    "null",
    "[]",
    "\"text\"",
    "5",
    \* paths that is a text
    "{\"paths\":\"x\"}",
    \* a node missing on the way to the schema
    "{\"paths\":{\"/pets\":{\"get\":{}}}}",
    "{\"paths\":{\"/pets\":{\"get\":{\"responses\":{\"404\":{}}}}}}",
    "{\"paths\":{\"/pets\":{\"get\":{\"responses\":{\"200\":{}}}}}}",
    "{\"paths\":{\"/pets\":{\"get\":{\"responses\":{\"200\":{\"content\":{\"text/plain\":{\"schema\":{\"type\":\"object\",\"properties\":{\"a\":{\"type\":\"string\"}}}}}}}}}}}",
    "{\"paths\":{\"/pets\":{\"get\":{\"responses\":{\"200\":{\"content\":{\"application/json\":{}}}}}}}}",
    "{\"paths\":{\"/pets\":{\"get\":{\"responses\":{\"200\":{\"content\":{\"application/json\":{\"schema\":0}}}}}}}}",
    \* shapes that are not supported
    "{\"paths\":{\"/pets\":{\"get\":{\"responses\":{\"200\":{\"content\":{\"application/json\":{\"schema\":{\"type\":\"string\"}}}}}}}}}",
    "{\"paths\":{\"/pets\":{\"get\":{\"responses\":{\"200\":{\"content\":{\"application/json\":{\"schema\":{\"type\":\"array\"}}}}}}}}}",
    "{\"paths\":{\"/pets\":{\"get\":{\"responses\":{\"200\":{\"content\":{\"application/json\":{\"schema\":{\"type\":\"array\",\"items\":{\"type\":\"string\"},\"properties\":{\"a\":{\"type\":\"string\"}}}}}}}}}}}",
    "{\"paths\":{\"/pets\":{\"get\":{\"responses\":{\"200\":{\"content\":{\"application/json\":{\"schema\":{\"type\":\"object\"}}}}}}}}}",
    "{\"paths\":{\"/pets\":{\"get\":{\"responses\":{\"200\":{\"content\":{\"application/json\":{\"schema\":{\"properties\":{\"a\":{\"type\":\"string\"}}}}}}}}}}}",
    \* no property at all
    "{\"paths\":{\"/pets\":{\"get\":{\"responses\":{\"200\":{\"content\":{\"application/json\":{\"schema\":{\"type\":\"object\",\"properties\":{}}}}}}}}}}",
    \* both items.properties and properties
    "{\"paths\":{\"/pets\":{\"get\":{\"responses\":{\"200\":{\"content\":{\"application/json\":{\"schema\":{\"type\":\"array\",\"items\":{\"properties\":{\"a\":{\"type\":\"number\"}}},\"properties\":{\"b\":{\"type\":\"string\"}}}}}}}}}}}",
    \* every kind of property node; integer-like names
    "{\"paths\":{\"/pets\":{\"get\":{\"responses\":{\"200\":{\"content\":{\"application/json\":{\"schema\":{\"type\":\"object\",\"properties\":{\"n\":{\"type\":\"number\"},\"b\":{\"type\":\"boolean\"},\"c\":{},\"d\":{\"type\":\"string\",\"format\":\"date\"},\"e\":{\"type\":\"integer\",\"format\":\"email\"},\"2\":{\"type\":\"string\"},\"1\":{\"type\":\"integer\"}}}}}}}}}}}",
    \* a property node that is null
    "{\"paths\":{\"/pets\":{\"get\":{\"responses\":{\"200\":{\"content\":{\"application/json\":{\"schema\":{\"type\":\"object\",\"properties\":{\"a\":null}}}}}}}}}}",
    \* a property named __proto__
    "{\"paths\":{\"/pets\":{\"get\":{\"responses\":{\"200\":{\"content\":{\"application/json\":{\"schema\":{\"type\":\"object\",\"properties\":{\"__proto__\":{\"type\":\"string\"},\"id\":{\"type\":\"string\",\"format\":\"uuid\"}}}}}}}}}}}",
    \* properties that is a text
    "{\"paths\":{\"/pets\":{\"get\":{\"responses\":{\"200\":{\"content\":{\"application/json\":{\"schema\":{\"type\":\"object\",\"properties\":\"ab\"}}}}}}}}}",
    \* two paths: only the first is read
    "{\"paths\":{\"/a\":{\"get\":{}},\"/b\":{\"get\":{\"responses\":{\"200\":{\"content\":{\"application/json\":{\"schema\":{\"type\":\"object\",\"properties\":{\"x\":{\"type\":\"string\"}}}}}}}}}}}",
    \* two methods: only the first is read
    "{\"paths\":{\"/a\":{\"get\":{\"responses\":{\"200\":{\"content\":{\"application/json\":{\"schema\":{\"type\":\"object\",\"properties\":{\"g\":{\"type\":\"integer\"}}}}}}}},\"post\":{\"responses\":{\"200\":{\"content\":{\"application/json\":{\"schema\":{\"type\":\"object\",\"properties\":{\"p\":{\"type\":\"string\"}}}}}}}}}}}"
  }

\* the parsed documents, and the empty YAML document
DocInputs == {JSONparse(t).v : t \in DocTexts} \cup {Undefined}

callParseSchema(txt) ==
  /\ call' = [fn |-> "parseSchema", txt |-> txt, out |-> parseSchema(txt)]
  /\ UNCHANGED <<endpoint, method, count, schemaText, result, error, working, pending, last>>

callGenValue(typeSpec, raw, tz) ==
  /\ call' = [fn |-> "genValue", typeSpec |-> typeSpec, raw |-> raw, tz |-> tz,
              out |-> genValue(typeSpec, raw, tz)]
  /\ UNCHANGED <<endpoint, method, count, schemaText, result, error, working, pending, last>>

callMapSchemaType(t, f) ==
  /\ call' = [fn |-> "mapSchemaType", t |-> t, f |-> f, out |-> mapSchemaType(t, f)]
  /\ UNCHANGED <<endpoint, method, count, schemaText, result, error, working, pending, last>>

callOpenApiToSchema(doc) ==
  /\ call' = [fn |-> "openApiToSchema", doc |-> doc, out |-> openApiToSchema(doc)]
  /\ UNCHANGED <<endpoint, method, count, schemaText, result, error, working, pending, last>>

NextFn ==
  \/ \E txt \in ParseInputs : callParseSchema(txt)
  \/ \E typeSpec \in TypeSpecInputs, raw \in RawInputs, tz \in TimeZoneInputs :
       callGenValue(typeSpec, raw, tz)
  \/ \E t \in TypeInputs, f \in FormatInputs : callMapSchemaType(t, f)
  \/ \E doc \in DocInputs : callOpenApiToSchema(doc)

SpecFn == Init /\ [][NextFn]_vars
(***************************************************************************)
(* Generation at every kind of count: the form as filled in before the     *)
(* button is clicked, with a flat schema and any count                     *)
(***************************************************************************)
\* schemas that map field names to type-tag texts
FlatSchemaInputs ==
  { DefaultSchemaText,
    "{\"m\":\"string\"}",
    "{}",
    "{\"id\":\"uuid\",\"age\":\"number\"}",
    "{\"2\":\"number\",\"1\":\"uuid\",\"b\":\"unknown-tag\"}",
    "{\"__proto__\":\"uuid\",\"x\":\"email\"}" }

\* what count.value can hold: a number typed into the field (NumHalf(n) is
\* n + 0.5), or the empty text when the field holds no number
SmallCountInputs ==
  { Num(-3), NumHalf(-1), Num(0), NumHalf(0), Num(1), NumHalf(1), Num(2), NumHalf(2),
    Num(3), Num(5), Str("") }

\* counts that reach the upper limit: these are tried with one schema
LargeCountInputs ==
  { Num(9999), Num(10000), NumHalf(10000), Num(10001), Num(999999) }
LargeCountSchema == "{\"m\":\"string\"}"

InitCount ==
  /\ endpoint = "/users"
  /\ method = "GET"
  /\ \/ count \in SmallCountInputs /\ schemaText \in FlatSchemaInputs
     \/ count \in LargeCountInputs /\ schemaText = LargeCountSchema
  /\ result = Null
  /\ error = ""
  /\ working = FALSE
  /\ pending = {}
  /\ last = [op |-> "setup", ok |-> TRUE]
  /\ call = NoCall

NextCount == \E seed \in Seeds, tz \in TimeZones : onGenerate(seed, tz)

SpecCount == InitCount /\ [][NextCount]_vars

(***************************************************************************)
(* The form and the generated handler text: every endpoint and method,     *)
(* results of several lengths and no result                                *)
(***************************************************************************)
MswCountInputs == { Num(3), Num(1) }
MswSchemaInputs == { DefaultSchemaText, "{}", "not json" }

NextMsw ==
  \/ \E seed \in Seeds, tz \in TimeZones : onGenerate(seed, tz)
  \/ \E e \in EndpointInputs : setEndpoint(e)
  \/ \E m \in MethodInputs : setMethod(m)
  \/ \E c \in MswCountInputs : setCount(c)
  \/ \E t \in MswSchemaInputs : setSchemaText(t)

SpecMsw == Init /\ [][NextMsw]_vars

(***************************************************************************)
(* Properties                                                              *)
(***************************************************************************)
\* the field names of the schema a text decodes to, in enumeration order
FieldNames(txt) == ObjectKeys(JSONparse(txt).v)

IsWholeCount(c) == c.k = "number" /\ c.cls = "finite" /\ ~c.half

\* C1: for every valid flat schema S and every whole count n from 1 to 10000,
\* onGenerate leaves exactly n records, each with exactly the field names of
\* S, in the order of S.
C1_RecordsHaveTheFieldsOfTheSchema ==
  (last.op = "onGenerate" /\ IsWholeCount(count) /\ count.n \in 1..10000) =>
    /\ last.ok
    /\ result.k = "array"
    /\ Len(result.a) = count.n
    /\ \A i \in 1..Len(result.a) :
         result.a[i].k = "object" /\ ObjectKeys(result.a[i]) = FieldNames(schemaText)

\* the number of records the count asks for: 1 when it is no number or below
\* 1, 10000 when it is above 10000, its whole part otherwise
RequestedLength(c) ==
  IF c.k # "number" \/ c.cls # "finite" THEN 1
  ELSE IF c.n < 1 THEN 1
  ELSE IF c.n >= 10000 THEN 10000
  ELSE c.n

\* C2: the count is clamped, never rejected: below 1 gives 1 record, above
\* 10000 gives 10000 records, no number gives 1 record, and the length of a
\* generated sequence is from 1 to 10000.
C2_CountIsClamped ==
  last.op = "onGenerate" =>
    /\ last.ok
    /\ result.k = "array"
    /\ Len(result.a) = RequestedLength(count)
    /\ Len(result.a) \in 1..10000

C2_Witness ==
  /\ last.op = "onGenerate"
  /\ count = Num(10001)
  /\ result.k = "array"
  /\ Len(result.a) = 10000

\* C3: parseSchema fails with a schema-format error when the text is no valid
\* JSON or decodes to null, to a value that is no object or to an array; it
\* succeeds, returning the decoded mapping, only for an object that is neither.
C3_ParseSchemaAcceptsOnlyObjects ==
  call.fn = "parseSchema" =>
    \E r \in {JSONparse(call.txt)} :
      IF r.ok /\ r.v.k = "object"
      THEN call.out = Ok(r.v)
      ELSE ~call.out.ok /\ call.out.message \in {MsgJsonSyntax, MsgSchemaNotObject}

\* C4: building the records raises no error: an onGenerate whose parseSchema
\* step succeeded ends with a result that is not null and an empty error.
C4_GenerationCannotFail ==
  (last.op = "onGenerate" /\ parseSchema(schemaText).ok) =>
    last.ok /\ result # Null /\ error = ""

\* C5: after an onGenerate that fails, whatever the state before it, result
\* is null and error is the message of the failure; after one that succeeds,
\* error is empty and result is the sequence it generated.
C5_NoStaleResult ==
  last.op = "onGenerate" =>
    \E seed \in Seeds, tz \in TimeZones :
      \E out \in {generateOutcome(schemaText, count, seed, tz)} :
        /\ last.ok = out.ok
        /\ IF out.ok
           THEN error = "" /\ result = out.v /\ result.k = "array"
           ELSE result = Null /\ error = out.message /\ error # ""

C5_Witness ==
  /\ last.op = "onGenerate"
  /\ ~last.ok
  /\ last.hadResult
  /\ result = Null
  /\ error = MsgJsonSyntax

\* C6: a reader callback whose conversion fails leaves the schema text and
\* the result as they were and sets the error to the prefixed message of the
\* failure; one whose conversion succeeds replaces the text by the whole
\* converted schema, and the result stays as it was.
C6_FailedConversionKeepsText ==
  [][\A file \in pending \ pending' :
       \E out \in {convertOutcome(file)} :
         /\ result' = result
         /\ IF out.ok
            THEN schemaText' = out.v
            ELSE schemaText' = schemaText /\ error' = MsgConvertPrefix \o out.message]_vars

C6_Witness ==
  /\ last.op = "onload"
  /\ ~last.ok
  /\ result # Null
  /\ schemaText = "{\"m\":\"string\"}"
  /\ error = MsgConvertPrefix \o MsgNotConvertible

\* v[Object.keys(v)[0]], undefined when v has no key
FirstMember(v) == OptGet(v, ToPropertyKey(FirstKey(v)))

\* the node at responses["200"].content["application/json"].schema of the
\* first method of the first path of a document, undefined when a node on the
\* way is absent
LocatedSchema(doc) ==
  OptGet(OptGet(OptGet(OptGet(OptGet(FirstMember(FirstMember(OptGet(doc, "paths"))),
    "responses"), "200"), "content"), "application/json"), "schema")

\* the properties node the conversion reduces, undefined when the shape of
\* the schema is not supported
ReducedNode(schema) ==
  IF Get(schema, "type") = Str("array") /\ Truthy(OptGet(Get(schema, "items"), "properties"))
  THEN Get(Get(schema, "items"), "properties")
  ELSE IF Get(schema, "type") = Str("object") /\ Truthy(Get(schema, "properties"))
  THEN Get(schema, "properties")
  ELSE Undefined

\* C7: openApiToSchema returns a schema or fails with one of its three
\* errors: paths not found when the paths node is missing, schema not found
\* when a node on the way to the schema is absent (a paths node with no path
\* and a path with no method included), unsupported shape otherwise; never
\* with another error.
C7_OnlyDescriptiveErrors ==
  call.fn = "openApiToSchema" =>
    \/ call.out.ok
    \/ /\ call.out.name = "Error"
       /\ call.out.message =
            IF ~Truthy(OptGet(call.doc, "paths")) THEN MsgPathsNotFound
            ELSE IF ~Truthy(LocatedSchema(call.doc)) THEN MsgSchemaNotFound
            ELSE MsgUnsupported

\* C8: of the located schema, openApiToSchema reduces items.properties when
\* the type is array, else properties when the type is object, else fails
\* with the unsupported-shape error; the reduced schema has exactly the
\* property names of the reduced node, in their order, each mapped to
\* mapSchemaType(node.type, node.format); only the first method of the first
\* path is examined.
C8_ReducesTheLocatedSchema ==
  (call.fn = "openApiToSchema" /\ Truthy(LocatedSchema(call.doc))) =>
    \E node \in {ReducedNode(LocatedSchema(call.doc))} :
      IF node = Undefined
      THEN ~call.out.ok /\ call.out.message = MsgUnsupported
      ELSE /\ call.out.ok
           /\ call.out.v.k = "object"
           /\ ObjectKeys(call.out.v) = ObjectKeys(node)
           /\ \A i \in 1..Len(ObjectEntries(node)) :
                \E prop \in {ObjectEntries(node)[i][2]} :
                  ObjectEntries(call.out.v)[i][2] =
                    Str(mapSchemaType(OptGet(prop, "type"), OptGet(prop, "format")))

\* the tag of a (type, format) pair, the format looked at first
TagOf(t, f) ==
  CASE f = Str("uuid") -> "uuid"
    [] f = Str("email") -> "email"
    [] f \in {Str("date"), Str("date-time")} -> "date:YYYY-MM-DD"
    [] f \notin {Str("uuid"), Str("email"), Str("date"), Str("date-time")}
         /\ t \in {Str("integer"), Str("number")} -> "number"
    [] OTHER -> "string"

\* C9: mapSchemaType is total and the format takes precedence over the type:
\* uuid, email, date:YYYY-MM-DD for the formats uuid, email, date and
\* date-time, else string for the type string, number for the types integer
\* and number, else string; genValue gives a value that is not null for
\* every tag it returns.
C9_FormatTakesPrecedence ==
  call.fn = "mapSchemaType" =>
    /\ call.out = TagOf(call.t, call.f)
    /\ \A raw \in RawInputs, tz \in TimeZoneInputs :
         \E g \in {genValue(Str(call.out), raw, tz)} : g.ok /\ g.v # Null

C9_Witness ==
  /\ call.fn = "mapSchemaType"
  /\ call.t = Str("integer")
  /\ call.f = Str("uuid")
  /\ call.out = "uuid"

IsDigits(s) == \A i \in 1..Len(s) : IsDigit(Ch(s, i))

\* a zero-padded date text yyyy<sep>mm<sep>dd from 2018-01-01 to 2025-12-31
IsDateText(s, sep) ==
  /\ Len(s) = 10
  /\ IsDigits(SubSeq(s, 1, 4)) /\ IsDigits(SubSeq(s, 6, 7)) /\ IsDigits(SubSeq(s, 9, 10))
  /\ Ch(s, 5) = sep /\ Ch(s, 8) = sep
  /\ \E ymd \in {10000 * DecimalValue(SubSeq(s, 1, 4)) + 100 * DecimalValue(SubSeq(s, 6, 7))
                   + DecimalValue(SubSeq(s, 9, 10))} :
       ymd >= 20180101 /\ ymd <= 20251231

\* a full date-time text YYYY-MM-DDTHH:mm:ss.sssZ
IsDateTimeText(s) == Len(s) = 24 /\ Ch(s, 11) = "T" /\ Ch(s, 24) = "Z"

\* C10: genValue never raises on a text tag: number gives a whole number
\* from 0 to 9999; date:YYYY-MM-DD and date:YYYY/MM/DD give the zero-padded
\* text of a date from 2018-01-01 to 2025-12-31; date: with another format
\* gives a full date-time text; uuid, string and email give text; every
\* other tag gives null.
C10_GenValueIsTotal ==
  (call.fn = "genValue" /\ call.typeSpec.k = "string") =>
    /\ call.out.ok
    /\ \E tag \in {call.typeSpec.s}, v \in {call.out.v} :
         CASE tag = "number" -> IsWholeCount(v) /\ v.n >= 0 /\ v.n <= 9999
           [] tag = "date:YYYY-MM-DD" -> v.k = "string" /\ IsDateText(v.s, "-")
           [] tag = "date:YYYY/MM/DD" -> v.k = "string" /\ IsDateText(v.s, "/")
           [] startsWith(tag, "date:") /\ tag \notin {"date:YYYY-MM-DD", "date:YYYY/MM/DD"} ->
                v.k = "string" /\ IsDateTimeText(v.s)
           [] tag \in {"uuid", "string", "email"} -> v.k = "string" /\ v.s # ""
           [] OTHER -> v = Null

\* the text before and after the JSON body of the handler of the current
\* method and endpoint
MswHead ==
  "import { rest } from 'msw'\n\nexport const handlers = [\n  rest."
    \o (CASE method = "GET" -> "get"
          [] method = "POST" -> "post"
          [] method = "PUT" -> "put"
          [] method = "DELETE" -> "delete")
    \o "('" \o (IF endpoint = "" THEN "/" ELSE endpoint)
    \o "', (req, res, ctx) => {\n    return res(ctx.json("

MswTail == "))\n  })\n]"

\* C11: mswText is the placeholder comment exactly when result is null;
\* otherwise it is one handler for the lower-cased method and the endpoint
\* ("/" when the endpoint is empty) whose JSON body decodes to the whole
\* current record sequence, so a sequence generated with count 3 is embedded
\* as an array of exactly 3 objects.
C11_MswTextEmbedsTheResult ==
  \E text \in {mswText} :
    IF result = Null THEN text = MswPlaceholder
    ELSE /\ text # MswPlaceholder
         /\ startsWith(text, MswHead)
         /\ endsWith(text, MswTail)
         /\ Len(text) >= Len(MswHead) + Len(MswTail)
         /\ \E body \in {JSONparse(SubSeq(text, Len(MswHead) + 1, Len(text) - Len(MswTail)))} :
              /\ body.ok
              /\ body.v = result
              /\ body.v.k = "array"
              /\ \A i \in 1..Len(body.v.a) : body.v.a[i].k = "object"
              /\ (last.op = "onGenerate" /\ count = Num(3)) => Len(body.v.a) = 3

C11_Witness ==
  /\ last.op = "onGenerate"
  /\ last.ok
  /\ count = Num(3)
  /\ schemaText = DefaultSchemaText
  /\ Len(result.a) = 3
  /\ startsWith(mswText,
       "import { rest } from 'msw'\n\nexport const handlers = [\n  rest.delete('/', (req")

\* the errors a failed conversion of a file of the model sets
ConversionErrors ==
  {MsgConvertPrefix \o Converted[f].message : f \in {g \in Files : ~Converted[g].ok}}

\* C12: in every interleaving of generations, edits and reader callbacks,
\* result is changed only by onGenerate; a result that is not null stands
\* with an error that is not empty only when a failed conversion set that
\* error after the last generation; the error of a failed generation always
\* stands with a null result.
C12_ResultAndErrorAgree ==
  /\ []((result # Null /\ error # "") => error \in ConversionErrors)
  /\ []((error # "" /\ error \notin ConversionErrors) => result = Null)
  /\ [][/\ result' # result => last'.op = "onGenerate"
        /\ (last'.op = "onGenerate" /\ result' # Null) => error' = ""
        /\ (last'.op = "onGenerate" /\ error' # "") =>
             result' = Null /\ error' \notin ConversionErrors
        /\ (result' # Null /\ error' # "" /\ error' # error) =>
             last'.op = "onload" /\ ~last'.ok /\ result' = result]_vars

C12_Witness ==
  /\ last.op = "input"
  /\ result # Null
  /\ error = MsgConvertPrefix \o MsgJsonSyntax
  /\ pending # {}
====
